---- MODULE Spec2Model ----
(***************************************************************************)
(* A model of the layout calculators and the pipetting routines of the     *)
(* BIO446 Opentrons protocols:                                             *)
(*   FlexGB/ProteinDesign/pd_golden_gate_01.py  transfer_combinatorial_... *)
(*   FlexAS/pd_golden_gate_01.py                add_master_mix_to_...      *)
(*   FlexGB/ProteinDesign/pd_assay_01.py        run()                      *)
(*   FlexGB/ProteinDesign/pd_cfps_02.py         run()                      *)
(*   FlexAS/pd_golden_gate_01.py                run()                      *)
(* One behaviour is one invocation of one of these routines on one         *)
(* configuration; prog says which routine, pc where it stands, and log is  *)
(* the sequence of requests made to the robot runtime so far.  The         *)
(* combinatorial transfer may be executed a second time on the same        *)
(* configuration; first_run then holds what the first execution produced.  *)
(***************************************************************************)
EXTENDS Integers, Sequences, FiniteSets, TLC

VARIABLES prog, pc, config, total_combinations, all_combinations,
          dest_well_number, slot, log,
          dispenses_per_well, master_mix_wells_needed,
          current_master_mix_well, remaining_dispenses, result,
          columns_needed, extra_column_number, target_columns,
          internal_standards_column, nozzle, first_run

vars == <<prog, pc, config, total_combinations, all_combinations,
          dest_well_number, slot, log,
          dispenses_per_well, master_mix_wells_needed,
          current_master_mix_well, remaining_dispenses, result,
          columns_needed, extra_column_number, target_columns,
          internal_standards_column, nozzle, first_run>>

(***************************************************************************)
(* Bounds of the explored inputs.                                          *)
(***************************************************************************)
\* most slots of a generated combination spec
MaxSlots == 2
\* most alternatives in one slot of a generated combination spec
MaxSlotLen == 3

(***************************************************************************)
(* Combination specs.  A spec is a sequence of slots, a slot a sequence of *)
(* 1-indexed source well numbers.  The shipped specs have slot j starting  *)
(* at well base+j-1 and stepping by a fixed stride:                        *)
(*   [[1,9,17],[2],[3,11],[4]]        base 1, stride 8                     *)
(*   [[2,18],[3,19],[4,20],[5,21]]    base 2, stride 16                    *)
(***************************************************************************)
MkSlot(first, stride, n) == [i \in 1..n |-> first + stride * (i - 1)]

MkSpec(lens, base, stride) ==
    [j \in 1..Len(lens) |-> MkSlot(base + j - 1, stride, lens[j])]

\* combinations = [[1,9,17],[2],[3,11],[4]]
GGCombinations == MkSpec(<<3, 1, 2, 1>>, 1, 8)

\* config['combinations'] = [[2,18],[3,19],[4,20],[5,21]]
ShippedCombinations == MkSpec(<<2, 2, 2, 2>>, 2, 16)

\* slot lengths of the generated specs: every shape up to the bounds, an
\* empty spec and empty slots included
GenLens == UNION {[1..n -> 0..MaxSlotLen] : n \in 0..MaxSlots}

\* slot lengths giving the totals 16, 20, 24 and 25
ExampleLens == {<<2, 2, 2, 2>>, <<3, 1, 2, 1>>, <<4, 5>>, <<4, 6>>, <<5, 5>>}

AllLens == GenLens \cup ExampleLens

\* the specs given to the well-by-well routines
Specs == {MkSpec(lens, 1, 8) : lens \in AllLens}
             \cup {MkSpec(lens, 2, 16) : lens \in AllLens}

\* the specs given to the routines that read only the slot lengths
LayoutSpecs == {MkSpec(lens, 2, 16) : lens \in AllLens}

(***************************************************************************)
(* Python arithmetic.                                                      *)
(***************************************************************************)
\* a // b for b # 0: the floor of a/b, also for negative operands
FloorDiv(a, b) == IF b > 0 THEN a \div b ELSE (0 - a) \div (0 - b)

(***************************************************************************)
(* The combination enumerator.                                             *)
(***************************************************************************)
RECURSIVE TotalLoop(_, _, _)
\* the for loop of calculate_total_combinations, from slot i with the
\* running product total
TotalLoop(combinations, i, total) ==
    IF i > Len(combinations) THEN total
    ELSE TotalLoop(combinations, i + 1, total * Len(combinations[i]))

\* the running product started at 0 instead of 1
calculate_total_combinations_from0(combinations) == TotalLoop(combinations, 1, 0)

calculate_total_combinations(combinations) == TotalLoop(combinations, 1, 1)

\* one pool of itertools.product: [x + [y] for x in result for y in pool]
ProductStep(res, pool) ==
    [k \in 1..(Len(res) * Len(pool)) |->
        Append(res[((k - 1) \div Len(pool)) + 1], pool[((k - 1) % Len(pool)) + 1])]

RECURSIVE ProductLoop(_, _, _)
\* itertools.product: result = [[]], then one ProductStep per pool, in order
ProductLoop(combinations, i, res) ==
    IF i > Len(combinations) THEN res
    ELSE ProductLoop(combinations, i + 1, ProductStep(res, combinations[i]))

\* a product whose first slot varies fastest
ProductStepSwapped(res, pool) ==
    [k \in 1..(Len(res) * Len(pool)) |->
        Append(res[((k - 1) % Len(res)) + 1], pool[((k - 1) \div Len(res)) + 1])]

RECURSIVE ProductLoopSwapped(_, _, _)
ProductLoopSwapped(combinations, i, res) ==
    IF i > Len(combinations) THEN res
    ELSE ProductLoopSwapped(combinations, i + 1,
                            ProductStepSwapped(res, combinations[i]))

generate_all_combinations_swapped(combinations) ==
    ProductLoopSwapped(combinations, 1, <<<<>>>>)

generate_all_combinations(combinations) == ProductLoop(combinations, 1, <<<<>>>>)

(***************************************************************************)
(* Requests to the robot runtime.  A well is <<labware, 0-based index into *)
(* labware.wells()>>; columns()[c][r] is wells()[8*c + r].                 *)
(***************************************************************************)
NoWell == <<"", 0>>

Ev(op, pip, vol, src, dst) ==
    [op |-> op, pip |-> pip, vol |-> vol, src |-> src, dst |-> dst]

RECURSIVE Flatten(_)
\* the requests of a loop: its passes' requests one after the other
Flatten(seqs) == IF seqs = <<>> THEN <<>> ELSE Head(seqs) \o Flatten(Tail(seqs))

\* the members of a Python list
Range(list) == {list[i] : i \in 1..Len(list)}

(***************************************************************************)
(* Configurations.                                                         *)
(***************************************************************************)
\* pd_golden_gate_01.run: the spec, and transfer_volume=5
GGConfigs ==
    {[combinations |-> c, transfer_volume |-> 5] : c \in Specs}

\* config['master_mix_volume']: the shipped 12, another positive volume, and
\* the non-positive ones
MasterMixVolumes == {-12, 0, 12, 50}

\* config['master_mix_well_volume']: the shipped 100, a smaller well, and the
\* non-positive ones
MasterMixWellVolumes == {-100, 0, 30, 100}

MMConfigs ==
    {[combinations |-> c,
      master_mix_volume |-> v,
      master_mix_well_volume |-> w,
      master_mix_start_well |-> 33] :
        c \in LayoutSpecs, v \in MasterMixVolumes, w \in MasterMixWellVolumes}

mmVars == <<dispenses_per_well, master_mix_wells_needed,
            current_master_mix_well, remaining_dispenses, result>>

layoutVars == <<columns_needed, extra_column_number, target_columns,
                internal_standards_column, nozzle>>

(***************************************************************************)
(* FlexGB/ProteinDesign/pd_golden_gate_01.py: transfer_combinatorial_liquids *)
(***************************************************************************)
\* the 0-based index of a 1-indexed well number, forgotten
WellIndexUnconverted(well_number) == well_number

\* wells()[well_number - 1]
WellIndex(well_number) == well_number - 1

\* total_combinations = calculate_total_combinations(combinations)
GGCalcTotal ==
    /\ prog = "transfer_combinatorial_liquids"
    /\ pc = "gg_total"
    /\ total_combinations' = calculate_total_combinations(config.combinations)
    /\ pc' = "gg_generate"
    /\ UNCHANGED <<first_run, prog, config, all_combinations, dest_well_number, slot, log,
                   mmVars, layoutVars>>

\* an enumeration whose order varies from one execution to the next
GGGenerateAnyOrder ==
    /\ prog = "transfer_combinatorial_liquids"
    /\ pc = "gg_generate"
    /\ all_combinations' \in {generate_all_combinations(config.combinations),
                              generate_all_combinations_swapped(config.combinations)}
    /\ dest_well_number' = 1
    /\ slot' = 1
    /\ pc' = "gg_transfer"
    /\ UNCHANGED <<first_run, prog, config, total_combinations, log, mmVars, layoutVars>>

\* all_combinations = generate_all_combinations(combinations); dest_well_number = 1
GGGenerate ==
    /\ prog = "transfer_combinatorial_liquids"
    /\ pc = "gg_generate"
    /\ all_combinations' = generate_all_combinations(config.combinations)
    /\ dest_well_number' = 1
    /\ slot' = 1
    /\ pc' = "gg_transfer"
    /\ UNCHANGED <<first_run, prog, config, total_combinations, log, mmVars, layoutVars>>

\* one pass of the inner loop: pipette.transfer(transfer_volume, source_well, dest_well)
GGTransfer ==
    /\ prog = "transfer_combinatorial_liquids"
    /\ pc = "gg_transfer"
    /\ dest_well_number <= Len(all_combinations)
    /\ slot <= Len(all_combinations[dest_well_number])
    /\ LET source_well_number == all_combinations[dest_well_number][slot]
       IN log' = Append(log, Ev("transfer", "pipette", config.transfer_volume,
                                <<"source_plate", WellIndex(source_well_number)>>,
                                <<"dest_plate", WellIndex(dest_well_number)>>))
    /\ slot' = slot + 1
    /\ UNCHANGED <<first_run, prog, pc, config, total_combinations, all_combinations,
                   dest_well_number, mmVars, layoutVars>>

\* the inner loop is exhausted: dest_well_number += 1
GGNextDest ==
    /\ prog = "transfer_combinatorial_liquids"
    /\ pc = "gg_transfer"
    /\ dest_well_number <= Len(all_combinations)
    /\ slot > Len(all_combinations[dest_well_number])
    /\ dest_well_number' = dest_well_number + 1
    /\ slot' = 1
    /\ UNCHANGED <<first_run, prog, pc, config, total_combinations, all_combinations, log,
                   mmVars, layoutVars>>

\* the outer loop is exhausted: the routine returns
GGReturn ==
    /\ prog = "transfer_combinatorial_liquids"
    /\ pc = "gg_transfer"
    /\ dest_well_number > Len(all_combinations)
    /\ pc' = "done"
    /\ UNCHANGED <<first_run, prog, config, total_combinations, all_combinations,
                   dest_well_number, slot, log, mmVars, layoutVars>>

\* no execution has finished yet
NoRun == [ran |-> FALSE, all_combinations |-> <<>>, log |-> <<>>]

\* the protocol is executed once more on the same combinations: the first
\* execution's enumeration and transfers are kept aside, the routine's
\* locals start afresh
GGRunAgain ==
    /\ prog = "transfer_combinatorial_liquids"
    /\ pc = "done"
    /\ ~first_run.ran
    /\ first_run' = [ran |-> TRUE, all_combinations |-> all_combinations, log |-> log]
    /\ pc' = "gg_total"
    /\ total_combinations' = 0
    /\ all_combinations' = <<>>
    /\ dest_well_number' = 0
    /\ slot' = 0
    /\ log' = <<>>
    /\ UNCHANGED <<prog, config, mmVars, layoutVars>>

(***************************************************************************)
(* FlexAS/pd_golden_gate_01.py: add_master_mix_to_combinations             *)
(***************************************************************************)
\* a well counted as holding one dispense more than fits
DispensesPerWellRoundedUp(well_volume, volume) == FloorDiv(well_volume, volume) + 1

\* dispenses_per_well = master_mix_well_volume // master_mix_volume
DispensesPerWell(well_volume, volume) == FloorDiv(well_volume, volume)

\* the switch made one dispense early
NeedSwitchEarly(remaining) == remaining = 1

\* if remaining_dispenses == 0
NeedSwitch(remaining) == remaining = 0

\* total_combinations = calculate_total_combinations(combinations)
MMCalcTotal ==
    /\ prog = "add_master_mix_to_combinations"
    /\ pc = "mm_total"
    /\ total_combinations' = calculate_total_combinations(config.combinations)
    /\ pc' = "mm_dispenses"
    /\ UNCHANGED <<first_run, prog, config, all_combinations, dest_well_number, slot, log,
                   mmVars, layoutVars>>

\* dispenses_per_well = ...: Python raises ZeroDivisionError on a zero volume
MMCalcDispenses ==
    /\ prog = "add_master_mix_to_combinations"
    /\ pc = "mm_dispenses"
    /\ IF config.master_mix_volume = 0
         THEN /\ pc' = "ZeroDivisionError"
              /\ UNCHANGED dispenses_per_well
         ELSE /\ dispenses_per_well' =
                    DispensesPerWell(config.master_mix_well_volume,
                                     config.master_mix_volume)
              /\ pc' = "mm_wells"
    /\ UNCHANGED <<first_run, prog, config, total_combinations, all_combinations,
                   dest_well_number, slot, log, master_mix_wells_needed,
                   current_master_mix_well, remaining_dispenses, result,
                   layoutVars>>

\* master_mix_wells_needed = (total + dispenses_per_well - 1) // dispenses_per_well,
\* then the loop variables; ZeroDivisionError when no dispense fits in a well
MMCalcWellsNeeded ==
    /\ prog = "add_master_mix_to_combinations"
    /\ pc = "mm_wells"
    /\ IF dispenses_per_well = 0
         THEN /\ pc' = "ZeroDivisionError"
              /\ UNCHANGED <<master_mix_wells_needed, current_master_mix_well,
                             remaining_dispenses, dest_well_number>>
         ELSE /\ master_mix_wells_needed' =
                    FloorDiv(total_combinations + dispenses_per_well - 1,
                             dispenses_per_well)
              /\ current_master_mix_well' = config.master_mix_start_well - 1
              /\ remaining_dispenses' = dispenses_per_well
              /\ dest_well_number' = 1
              /\ pc' = "mm_loop"
    /\ UNCHANGED <<first_run, prog, config, total_combinations, all_combinations, slot, log,
                   dispenses_per_well, result, layoutVars>>

\* one pass of the loop over range(1, total_combinations + 1)
MMIteration ==
    /\ prog = "add_master_mix_to_combinations"
    /\ pc = "mm_loop"
    /\ dest_well_number <= total_combinations
    /\ LET switch == NeedSwitch(remaining_dispenses)
           well == IF switch THEN current_master_mix_well + 1
                   ELSE current_master_mix_well
           remaining == IF switch THEN dispenses_per_well
                        ELSE remaining_dispenses
       IN /\ current_master_mix_well' = well
          /\ log' = Append(log, Ev("transfer", "pipette", config.master_mix_volume,
                                   <<"source_plate", well>>,
                                   <<"dest_plate", WellIndex(dest_well_number)>>))
          /\ remaining_dispenses' = remaining - 1
    /\ dest_well_number' = dest_well_number + 1
    /\ UNCHANGED <<first_run, prog, pc, config, total_combinations, all_combinations, slot,
                   dispenses_per_well, master_mix_wells_needed, result,
                   layoutVars>>

\* the 1-indexed number of the well returned instead of its index
MMReturnWellNumber ==
    /\ prog = "add_master_mix_to_combinations"
    /\ pc = "mm_loop"
    /\ dest_well_number > total_combinations
    /\ result' = current_master_mix_well + 1
    /\ pc' = "done"
    /\ UNCHANGED <<first_run, prog, config, total_combinations, all_combinations,
                   dest_well_number, slot, log, dispenses_per_well,
                   master_mix_wells_needed, current_master_mix_well,
                   remaining_dispenses, layoutVars>>

\* return current_master_mix_well
MMReturn ==
    /\ prog = "add_master_mix_to_combinations"
    /\ pc = "mm_loop"
    /\ dest_well_number > total_combinations
    /\ result' = current_master_mix_well
    /\ pc' = "done"
    /\ UNCHANGED <<first_run, prog, config, total_combinations, all_combinations,
                   dest_well_number, slot, log, dispenses_per_well,
                   master_mix_wells_needed, current_master_mix_well,
                   remaining_dispenses, layoutVars>>

(***************************************************************************)
(* FlexGB/ProteinDesign/pd_assay_01.py                                     *)
(***************************************************************************)
\* a column appended to every exact multiple of 8
ColumnsNeededExtra(total) == FloorDiv(total, 8) + 1

\* columns_needed = (total_combinations + 7) // 8
ColumnsNeeded(total) == FloorDiv(total + 7, 8)

\* the extra column placed on the last combination column
ExtraColumnOnLast(first_column, needed) == first_column + needed - 1

\* extra_column_number = config['reaction_plate_first_column'] + columns_needed
ExtraColumnNumber(first_column, needed) == first_column + needed

\* (total_combinations, columns_needed, extra_column_number)
calculate_reaction_plate_layout(cfg) ==
    LET total == calculate_total_combinations(cfg.combinations)
        needed == ColumnsNeeded(total)
    IN <<total, needed, ExtraColumnNumber(cfg.reaction_plate_first_column, needed)>>

\* the extra column appended whether or not the plate has one
determine_target_columns_with_extra(cfg, needed, extra) ==
    Append([i \in 1..needed |-> cfg.reaction_plate_first_column + i - 1], extra)

\* list(range(first_col, first_col + columns_needed)), the extra column
\* appended when the plate has one, then sorted
determine_target_columns(cfg, needed, extra) ==
    LET first_col == cfg.reaction_plate_first_column
        combination_cols == [i \in 1..needed |-> first_col + i - 1]
        all_target_cols == IF cfg.reaction_plate_has_extra_column
                             THEN Append(combination_cols, extra)
                             ELSE combination_cols
    IN SortSeq(all_target_cols, LAMBDA a, b : a < b)

\* columns()[col_num - 1][0], as an index into wells()
ColumnTop(col_num) == 8 * (col_num - 1)

\* the transfers of dispense_assay_reagent, one for each target column
dispense_assay_reagent(cfg, targets) ==
    [i \in 1..Len(targets) |->
        Ev("transfer", "p200", cfg.assay_reagent_volume,
           <<"deep_well_plate", cfg.assay_reagent_well - 1>>,
           <<"assay_plate", ColumnTop(targets[i])>>)]

\* the transfers of transfer_samples_and_mix: the combination columns that
\* are target columns, then the extra column
transfer_samples_and_mix(cfg, targets, needed, extra) ==
    LET first_col == cfg.reaction_plate_first_column
        sample(col_num) ==
            Ev("transfer", "p50", cfg.sample_transfer_volume,
               <<"reaction_plate", ColumnTop(col_num)>>,
               <<"assay_plate", ColumnTop(col_num)>>)
        cols == SelectSeq([i \in 1..needed |-> first_col + i - 1],
                          LAMBDA c : c \in Range(targets))
    IN [i \in 1..Len(cols) |-> sample(cols[i])]
         \o (IF cfg.reaction_plate_has_extra_column /\ extra \in Range(targets)
               THEN <<sample(extra)>> ELSE <<>>)

\* the rows listed in cell_free_standards cleared instead of the others
remove_listed_content_from_extra_column(cfg, extra) ==
    IF ~cfg.overlay_extra_column \/ ~cfg.reaction_plate_has_extra_column
      THEN <<>>
      ELSE LET aspirate_volume == cfg.assay_reagent_volume + cfg.sample_transfer_volume
               clear(row_num) ==
                   <<Ev("aspirate", "p200", aspirate_volume,
                        <<"assay_plate", (extra - 1) * 8 + (row_num - 1)>>, NoWell),
                     Ev("dispense", "p200", aspirate_volume,
                        NoWell, <<"deep_well_plate", cfg.garbage_well - 1>>)>>
           IN Flatten([i \in 1..Len(cfg.cell_free_standards) |->
                          clear(cfg.cell_free_standards[i])])

\* the requests of remove_unwanted_content_from_extra_column: for each row
\* of 1..8 not in cell_free_standards an aspirate from the well and a
\* dispense into the garbage well
remove_unwanted_content_from_extra_column(cfg, extra) ==
    IF ~cfg.overlay_extra_column \/ ~cfg.reaction_plate_has_extra_column
      THEN <<>>
      ELSE LET all_rows == [r \in 1..8 |-> r]
               rows_to_remove ==
                   SelectSeq(all_rows, LAMBDA r : r \notin Range(cfg.cell_free_standards))
               aspirate_volume == cfg.assay_reagent_volume + cfg.sample_transfer_volume
               clear(row_num) ==
                   <<Ev("aspirate", "p200", aspirate_volume,
                        <<"assay_plate", (extra - 1) * 8 + (row_num - 1)>>, NoWell),
                     Ev("dispense", "p200", aspirate_volume,
                        NoWell, <<"deep_well_plate", cfg.garbage_well - 1>>)>>
           IN Flatten([i \in 1..Len(rows_to_remove) |-> clear(rows_to_remove[i])])

\* the transfer of overlay_internal_standards
overlay_internal_standards(cfg, extra) ==
    IF ~cfg.overlay_extra_column
      THEN <<>>
      ELSE <<Ev("transfer", "p50", cfg.internal_standards_transfer_volume,
                <<"internal_standards_plate",
                  ColumnTop(cfg.internal_standards_source_column)>>,
                <<"assay_plate", ColumnTop(extra)>>)>>

\* pipette.configure_nozzle_layout(style=...)
Configure(pip, style) == Ev("configure_nozzle_layout", pip, 0, <<style, 0>>, NoWell)

\* protocol.move_labware(labware, new_location)
MoveLabware(labware, location) ==
    Ev("move_labware", "", 0, <<labware, 0>>, <<location, 0>>)

\* config['cell_free_standards']: the shipped rows, none, and all eight
CellFreeStandards == {<<1, 2, 3, 4, 5>>, <<>>, <<1, 2, 3, 4, 5, 6, 7, 8>>}

AssayConfigs ==
    {[combinations |-> c,
      reaction_plate_first_column |-> f,
      reaction_plate_has_extra_column |-> x,
      overlay_extra_column |-> o,
      cell_free_standards |-> s,
      internal_standards_source_column |-> 2,
      garbage_well |-> 12,
      assay_reagent_volume |-> 180,
      sample_transfer_volume |-> 20,
      internal_standards_transfer_volume |-> 20,
      assay_reagent_well |-> 3,
      temperature |-> 4] :
        c \in LayoutSpecs, f \in {1, 2}, x \in BOOLEAN, o \in BOOLEAN,
        s \in CellFreeStandards}

ggVars == <<all_combinations, dest_well_number, slot>>

\* temp_mod.set_temperature(config['temperature'])
AssaySetTemperature ==
    /\ prog = "pd_assay_01"
    /\ pc = "assay_set_temperature"
    /\ log' = Append(log, Ev("set_temperature", "", config.temperature, NoWell, NoWell))
    /\ pc' = "assay_move_reaction_plate"
    /\ UNCHANGED <<first_run, prog, config, total_combinations, ggVars, mmVars, layoutVars>>

\* protocol.move_labware(reaction_plate, temp_adapter)
AssayMoveReactionPlate ==
    /\ prog = "pd_assay_01"
    /\ pc = "assay_move_reaction_plate"
    /\ log' = Append(log, MoveLabware("reaction_plate", "temp_adapter"))
    /\ pc' = "assay_configure"
    /\ UNCHANGED <<first_run, prog, config, total_combinations, ggVars, mmVars, layoutVars>>

\* both pipettes configured for 8-channel operation
AssayConfigure ==
    /\ prog = "pd_assay_01"
    /\ pc = "assay_configure"
    /\ nozzle' = [nozzle EXCEPT !.p50 = "COLUMN", !.p200 = "COLUMN"]
    /\ log' = log \o <<Configure("p50", "COLUMN"), Configure("p200", "COLUMN")>>
    /\ pc' = "assay_layout"
    /\ UNCHANGED <<first_run, prog, config, total_combinations, ggVars, mmVars, columns_needed,
                   extra_column_number, target_columns, internal_standards_column>>

\* total_combinations, columns_needed, extra_column_number =
\*     calculate_reaction_plate_layout(config)
AssayLayout ==
    /\ prog = "pd_assay_01"
    /\ pc = "assay_layout"
    /\ LET layout == calculate_reaction_plate_layout(config)
       IN /\ total_combinations' = layout[1]
          /\ columns_needed' = layout[2]
          /\ extra_column_number' = layout[3]
    /\ pc' = "assay_targets"
    /\ UNCHANGED <<first_run, prog, config, ggVars, log, mmVars, target_columns,
                   internal_standards_column, nozzle>>

\* target_columns = determine_target_columns(config, columns_needed, extra_column_number)
AssayTargets ==
    /\ prog = "pd_assay_01"
    /\ pc = "assay_targets"
    /\ target_columns' =
          determine_target_columns(config, columns_needed, extra_column_number)
    /\ pc' = "assay_dispense"
    /\ UNCHANGED <<first_run, prog, config, total_combinations, ggVars, log, mmVars,
                   columns_needed, extra_column_number, internal_standards_column,
                   nozzle>>

\* Steps 1 and 2 in the other order: the samples first, the reagent on top
AssayDispenseAfterSamples ==
    /\ prog = "pd_assay_01"
    /\ pc = "assay_dispense"
    /\ log' = log \o transfer_samples_and_mix(config, target_columns, columns_needed,
                                               extra_column_number)
                  \o dispense_assay_reagent(config, target_columns)
    /\ pc' = "assay_remove"
    /\ UNCHANGED <<first_run, prog, config, total_combinations, ggVars, mmVars, layoutVars>>

\* Step 1: dispense_assay_reagent(...)
AssayDispense ==
    /\ prog = "pd_assay_01"
    /\ pc = "assay_dispense"
    /\ log' = log \o dispense_assay_reagent(config, target_columns)
    /\ pc' = "assay_samples"
    /\ UNCHANGED <<first_run, prog, config, total_combinations, ggVars, mmVars, layoutVars>>

\* Step 2: transfer_samples_and_mix(...)
AssaySamples ==
    /\ prog = "pd_assay_01"
    /\ pc = "assay_samples"
    /\ log' = log \o transfer_samples_and_mix(config, target_columns, columns_needed,
                                               extra_column_number)
    /\ pc' = "assay_remove"
    /\ UNCHANGED <<first_run, prog, config, total_combinations, ggVars, mmVars, layoutVars>>

\* Step 3 without the guard of run(): the pipettes are reconfigured around
\* the removal whatever the config says
AssayRemoveUnguarded ==
    /\ prog = "pd_assay_01"
    /\ pc = "assay_remove"
    /\ nozzle' = [nozzle EXCEPT !.p200 = "SINGLE", !.p50 = "COLUMN"]
    /\ log' = log \o <<Configure("p200", "SINGLE")>>
                  \o remove_unwanted_content_from_extra_column(
                         config, extra_column_number)
                  \o <<Configure("p50", "COLUMN")>>
    /\ pc' = "assay_overlay"
    /\ UNCHANGED <<first_run, prog, config, total_combinations, ggVars, mmVars, columns_needed,
                   extra_column_number, target_columns, internal_standards_column>>

\* Step 3: with overlay and extra column, p200 to SINGLE, the removal, p50 to COLUMN
AssayRemove ==
    /\ prog = "pd_assay_01"
    /\ pc = "assay_remove"
    /\ IF config.overlay_extra_column /\ config.reaction_plate_has_extra_column
         THEN /\ nozzle' = [nozzle EXCEPT !.p200 = "SINGLE", !.p50 = "COLUMN"]
              /\ log' = log \o <<Configure("p200", "SINGLE")>>
                            \o remove_unwanted_content_from_extra_column(
                                   config, extra_column_number)
                            \o <<Configure("p50", "COLUMN")>>
         ELSE UNCHANGED <<nozzle, log>>
    /\ pc' = "assay_overlay"
    /\ UNCHANGED <<first_run, prog, config, total_combinations, ggVars, mmVars, columns_needed,
                   extra_column_number, target_columns, internal_standards_column>>

\* Step 4: with overlay and extra column, overlay_internal_standards(...)
AssayOverlay ==
    /\ prog = "pd_assay_01"
    /\ pc = "assay_overlay"
    /\ IF config.overlay_extra_column /\ config.reaction_plate_has_extra_column
         THEN log' = log \o overlay_internal_standards(config, extra_column_number)
         ELSE UNCHANGED log
    /\ pc' = "assay_move_assay_plate"
    /\ UNCHANGED <<first_run, prog, config, total_combinations, ggVars, mmVars, layoutVars>>

\* Step 5: protocol.move_labware(assay_plate, config['staging_position'])
AssayMoveAssayPlate ==
    /\ prog = "pd_assay_01"
    /\ pc = "assay_move_assay_plate"
    /\ log' = Append(log, MoveLabware("assay_plate", "staging_position"))
    /\ pc' = "done"
    /\ UNCHANGED <<first_run, prog, config, total_combinations, ggVars, mmVars, layoutVars>>

(***************************************************************************)
(* FlexGB/ProteinDesign/pd_cfps_02.py                                      *)
(***************************************************************************)
\* (internal_standards_column, total_combinations): the standards go in the
\* column after the columns needed for the PCR products
calculate_internal_standards_column(cfg) ==
    LET total == calculate_total_combinations(cfg.combinations)
        needed == ColumnsNeeded(total)
    IN <<needed + 1, total>>

\* the transfers of transfer_pcr_products: source column col_idx to template
\* column template_cols[col_idx], until the needed or the template columns
\* run out
transfer_pcr_products(cfg) ==
    LET total == calculate_total_combinations(cfg.combinations)
        needed == ColumnsNeeded(total)
        issued == IF needed <= Len(cfg.template_columns)
                    THEN needed ELSE Len(cfg.template_columns)
    IN [i \in 1..issued |->
           Ev("transfer", "p50", cfg.pcr_transfer_volume,
              <<"source_plate", ColumnTop(i)>>,
              <<"reaction_plate", ColumnTop(cfg.template_columns[i])>>)]

\* the transfers of transfer_internal_standards: standards well i to row
\* internal_standards_wells[i] of the standards column
transfer_internal_standards(cfg, standards_column) ==
    [i \in 1..Len(cfg.internal_standards_wells) |->
        Ev("transfer", "p50", cfg.pcr_transfer_volume,
           <<"internal_standards_plate", i - 1>>,
           <<"reaction_plate",
             ColumnTop(standards_column) + (cfg.internal_standards_wells[i] - 1)>>)]

\* the requests of prepare_reagent_mix, steps 1 to 5
prepare_reagent_mix(cfg, standards_column) ==
    LET mix_A == <<"reaction_plate", ColumnTop(cfg.reagent_mix_A_column)>>
        mix_B == <<"reaction_plate", ColumnTop(cfg.reagent_mix_B_column)>>
        mixing == <<"reaction_plate", ColumnTop(cfg.reagent_mixing_column)>>
    IN <<Ev("transfer", "p1000", cfg.reagent_mix_A_volume, mix_A, mixing),
         Ev("transfer", "p1000", cfg.reagent_mix_B_volume, mix_B, mixing),
         Ev("mix", "p1000", cfg.mixing_volume, NoWell, mixing)>>
       \o [i \in 1..Len(cfg.template_columns) |->
              Ev("transfer", "p1000", cfg.final_reagent_volume, mixing,
                 <<"reaction_plate", ColumnTop(cfg.template_columns[i])>>)]
       \o [i \in 1..Len(cfg.internal_standards_wells) |->
              Ev("transfer", "p50", cfg.final_reagent_volume,
                 <<"reaction_plate", ColumnTop(cfg.reagent_mixing_column)
                                       + (cfg.internal_standards_wells[i] - 1)>>,
                 <<"reaction_plate", ColumnTop(standards_column)
                                       + (cfg.internal_standards_wells[i] - 1)>>)]

\* config['template_columns']: the shipped columns, and lists longer and
\* shorter than the columns the shipped spec needs
TemplateColumns == {<<7, 8>>, <<1, 2, 3>>, <<1>>}

\* config['internal_standards_wells']: the shipped rows, and two scattered rows
InternalStandardsWells == {<<1, 2, 3, 4, 5>>, <<2, 7>>}

CfpsConfigs ==
    {[combinations |-> c,
      pcr_transfer_volume |-> 2,
      internal_standards_wells |-> w,
      template_columns |-> t,
      reagent_mix_A_column |-> 5,
      reagent_mix_B_column |-> 7,
      reagent_mixing_column |-> 8,
      reagent_mix_A_volume |-> 60,
      reagent_mix_B_volume |-> 30,
      final_reagent_volume |-> 23,
      mixing_volume |-> 20,
      heater_shaker_temp |-> 37,
      pause_duration |-> 5,
      shaking_duration |-> 180,
      shaking_speed |-> 100,
      temperature |-> 4] :
        c \in LayoutSpecs, t \in TemplateColumns, w \in InternalStandardsWells}

\* temp_mod.set_temperature(config['temperature'])
CfpsSetTemperature ==
    /\ prog = "pd_cfps_02"
    /\ pc = "cfps_set_temperature"
    /\ log' = Append(log, Ev("set_temperature", "", config.temperature, NoWell, NoWell))
    /\ pc' = "cfps_move_plates"
    /\ UNCHANGED <<first_run, prog, config, total_combinations, ggVars, mmVars, layoutVars>>

\* the standards plate moved to its final position, the reaction plate to
\* the temperature module
CfpsMovePlates ==
    /\ prog = "pd_cfps_02"
    /\ pc = "cfps_move_plates"
    /\ log' = log \o <<MoveLabware("internal_standards_plate",
                                   "internal_standards_final_position"),
                       MoveLabware("reaction_plate", "temp_adapter")>>
    /\ pc' = "cfps_configure_p50"
    /\ UNCHANGED <<first_run, prog, config, total_combinations, ggVars, mmVars, layoutVars>>

\* p50.configure_nozzle_layout(style=SINGLE, ...)
CfpsConfigureP50 ==
    /\ prog = "pd_cfps_02"
    /\ pc = "cfps_configure_p50"
    /\ nozzle' = [nozzle EXCEPT !.p50 = "SINGLE"]
    /\ log' = Append(log, Configure("p50", "SINGLE"))
    /\ pc' = "cfps_layout"
    /\ UNCHANGED <<first_run, prog, config, total_combinations, ggVars, mmVars, columns_needed,
                   extra_column_number, target_columns, internal_standards_column>>

\* a calculator that pops the slots off config['combinations'] as it
\* multiplies their lengths
CfpsLayoutInPlace ==
    /\ prog = "pd_cfps_02"
    /\ pc = "cfps_layout"
    /\ LET layout == calculate_internal_standards_column(config)
       IN /\ internal_standards_column' = layout[1]
          /\ total_combinations' = layout[2]
    /\ config' = [config EXCEPT !.combinations = <<>>]
    /\ pc' = "cfps_pcr"
    /\ UNCHANGED <<first_run, prog, ggVars, log, mmVars, columns_needed,
                   extra_column_number, target_columns, nozzle>>

\* internal_standards_column, total_combinations =
\*     calculate_internal_standards_column(config)
CfpsLayout ==
    /\ prog = "pd_cfps_02"
    /\ pc = "cfps_layout"
    /\ LET layout == calculate_internal_standards_column(config)
       IN /\ internal_standards_column' = layout[1]
          /\ total_combinations' = layout[2]
    /\ pc' = "cfps_pcr"
    /\ UNCHANGED <<first_run, prog, config, ggVars, log, mmVars, columns_needed,
                   extra_column_number, target_columns, nozzle>>

\* transfer_pcr_products(...), with its own columns_needed
CfpsTransferPcr ==
    /\ prog = "pd_cfps_02"
    /\ pc = "cfps_pcr"
    /\ columns_needed' = ColumnsNeeded(calculate_total_combinations(config.combinations))
    /\ log' = log \o transfer_pcr_products(config)
    /\ pc' = "cfps_standards"
    /\ UNCHANGED <<first_run, prog, config, total_combinations, ggVars, mmVars,
                   extra_column_number, target_columns, internal_standards_column,
                   nozzle>>

\* transfer_internal_standards(...)
CfpsTransferStandards ==
    /\ prog = "pd_cfps_02"
    /\ pc = "cfps_standards"
    /\ log' = log \o transfer_internal_standards(config, internal_standards_column)
    /\ pc' = "cfps_configure_p1000"
    /\ UNCHANGED <<first_run, prog, config, total_combinations, ggVars, mmVars, layoutVars>>

\* p1000.configure_nozzle_layout(style='COLUMN', ...)
CfpsConfigureP1000 ==
    /\ prog = "pd_cfps_02"
    /\ pc = "cfps_configure_p1000"
    /\ nozzle' = [nozzle EXCEPT !.p1000 = "COLUMN"]
    /\ log' = Append(log, Configure("p1000", "COLUMN"))
    /\ pc' = "cfps_reagents"
    /\ UNCHANGED <<first_run, prog, config, total_combinations, ggVars, mmVars, columns_needed,
                   extra_column_number, target_columns, internal_standards_column>>

\* prepare_reagent_mix(...)
CfpsPrepareReagentMix ==
    /\ prog = "pd_cfps_02"
    /\ pc = "cfps_reagents"
    /\ log' = log \o prepare_reagent_mix(config, internal_standards_column)
    /\ pc' = "cfps_stage"
    /\ UNCHANGED <<first_run, prog, config, total_combinations, ggVars, mmVars, layoutVars>>

\* the reaction plate back to staging, the heater/shaker heated, the pause
CfpsStage ==
    /\ prog = "pd_cfps_02"
    /\ pc = "cfps_stage"
    /\ log' = log \o <<MoveLabware("reaction_plate", "reaction_plate_initial_position"),
                       Ev("set_target_temperature", "", config.heater_shaker_temp,
                          NoWell, NoWell),
                       Ev("delay", "", config.pause_duration, NoWell, NoWell)>>
    /\ pc' = "cfps_incubate"
    /\ UNCHANGED <<first_run, prog, config, total_combinations, ggVars, mmVars, layoutVars>>

\* the reaction plate on the heater/shaker, shaken, the shaker stopped
CfpsIncubate ==
    /\ prog = "pd_cfps_02"
    /\ pc = "cfps_incubate"
    /\ log' = log \o <<MoveLabware("reaction_plate", "shaker_adapter"),
                       Ev("set_and_wait_for_shake_speed", "", config.shaking_speed,
                          NoWell, NoWell),
                       Ev("delay", "", config.shaking_duration, NoWell, NoWell),
                       Ev("deactivate_shaker", "", 0, NoWell, NoWell)>>
    /\ pc' = "cfps_unload"
    /\ UNCHANGED <<first_run, prog, config, total_combinations, ggVars, mmVars, layoutVars>>

\* both plates back to their initial positions
CfpsUnload ==
    /\ prog = "pd_cfps_02"
    /\ pc = "cfps_unload"
    /\ log' = log \o <<MoveLabware("reaction_plate", "reaction_plate_initial_position"),
                       MoveLabware("internal_standards_plate",
                                   "internal_standards_initial_position")>>
    /\ pc' = "done"
    /\ UNCHANGED <<first_run, prog, config, total_combinations, ggVars, mmVars, layoutVars>>

(***************************************************************************)
(* FlexAS/pd_golden_gate_01.py: run()                                      *)
(***************************************************************************)
\* the requests of FlexAS prepare_reagent_mix: mix A and mix B into the
\* mixing column, the mix, the mixing column into each template column
FlexAS_prepare_reagent_mix(cfg) ==
    LET mix_A == <<"reaction_plate", ColumnTop(cfg.reagent_mix_A_column)>>
        mix_B == <<"reaction_plate", ColumnTop(cfg.reagent_mix_B_column)>>
        mixing == <<"reaction_plate", ColumnTop(cfg.reagent_mixing_column)>>
    IN <<Ev("transfer", "p50", cfg.reagent_mix_A_volume, mix_A, mixing),
         Ev("transfer", "p50", cfg.reagent_mix_B_volume, mix_B, mixing),
         Ev("mix", "p50", cfg.mixing_volume, NoWell, mixing)>>
       \o [i \in 1..Len(cfg.template_columns) |->
              Ev("transfer", "p50", cfg.final_reagent_volume, mixing,
                 <<"reaction_plate", ColumnTop(cfg.template_columns[i])>>)]

\* the module-level config of FlexAS/pd_golden_gate_01.py, with the shipped
\* template columns and the other explored lists
FlexASConfigs ==
    {[combinations |-> ShippedCombinations,
      master_mix_volume |-> 12,
      master_mix_well_volume |-> 100,
      master_mix_start_well |-> 33,
      template_columns |-> t,
      reagent_mix_A_column |-> 5,
      reagent_mix_B_column |-> 7,
      reagent_mixing_column |-> 8,
      reagent_mix_A_volume |-> 100,
      reagent_mix_B_volume |-> 50,
      final_reagent_volume |-> 50,
      mixing_volume |-> 75,
      heater_shaker_temp |-> 37,
      pause_duration |-> 5,
      shaking_duration |-> 180,
      shaking_speed |-> 100,
      temperature |-> 4] : t \in TemplateColumns}

\* temp_mod.set_temperature(config['temperature'])
FlexASSetTemperature ==
    /\ prog = "FlexAS_pd_golden_gate_01"
    /\ pc = "flexas_set_temperature"
    /\ log' = Append(log, Ev("set_temperature", "", config.temperature, NoWell, NoWell))
    /\ pc' = "flexas_move_reaction_plate"
    /\ UNCHANGED <<first_run, prog, config, total_combinations, ggVars, mmVars, layoutVars>>

\* protocol.move_labware(reaction_plate, temp_adapter)
FlexASMoveReactionPlate ==
    /\ prog = "FlexAS_pd_golden_gate_01"
    /\ pc = "flexas_move_reaction_plate"
    /\ log' = Append(log, MoveLabware("reaction_plate", "temp_adapter"))
    /\ pc' = "flexas_configure_p50"
    /\ UNCHANGED <<first_run, prog, config, total_combinations, ggVars, mmVars, layoutVars>>

\* p50.configure_nozzle_layout(style='COLUMN', ...)
FlexASConfigureP50 ==
    /\ prog = "FlexAS_pd_golden_gate_01"
    /\ pc = "flexas_configure_p50"
    /\ nozzle' = [nozzle EXCEPT !.p50 = "COLUMN"]
    /\ log' = Append(log, Configure("p50", "COLUMN"))
    /\ pc' = "flexas_reagents"
    /\ UNCHANGED <<first_run, prog, config, total_combinations, ggVars, mmVars, columns_needed,
                   extra_column_number, target_columns, internal_standards_column>>

\* prepare_reagent_mix(...)
FlexASPrepareReagentMix ==
    /\ prog = "FlexAS_pd_golden_gate_01"
    /\ pc = "flexas_reagents"
    /\ log' = log \o FlexAS_prepare_reagent_mix(config)
    /\ pc' = "flexas_stage"
    /\ UNCHANGED <<first_run, prog, config, total_combinations, ggVars, mmVars, layoutVars>>

\* the reaction plate back to staging, the heater/shaker heated, the pause
FlexASStage ==
    /\ prog = "FlexAS_pd_golden_gate_01"
    /\ pc = "flexas_stage"
    /\ log' = log \o <<MoveLabware("reaction_plate", "reaction_plate_initial_position"),
                       Ev("set_target_temperature", "", config.heater_shaker_temp,
                          NoWell, NoWell),
                       Ev("delay", "", config.pause_duration, NoWell, NoWell)>>
    /\ pc' = "flexas_incubate"
    /\ UNCHANGED <<first_run, prog, config, total_combinations, ggVars, mmVars, layoutVars>>

\* the reaction plate on the heater/shaker, shaken, the shaker stopped
FlexASIncubate ==
    /\ prog = "FlexAS_pd_golden_gate_01"
    /\ pc = "flexas_incubate"
    /\ log' = log \o <<MoveLabware("reaction_plate", "shaker_adapter"),
                       Ev("set_and_wait_for_shake_speed", "", config.shaking_speed,
                          NoWell, NoWell),
                       Ev("delay", "", config.shaking_duration, NoWell, NoWell),
                       Ev("deactivate_shaker", "", 0, NoWell, NoWell)>>
    /\ pc' = "flexas_unload"
    /\ UNCHANGED <<first_run, prog, config, total_combinations, ggVars, mmVars, layoutVars>>

\* the reaction plate back to its initial position
FlexASUnload ==
    /\ prog = "FlexAS_pd_golden_gate_01"
    /\ pc = "flexas_unload"
    /\ log' = Append(log, MoveLabware("reaction_plate", "reaction_plate_initial_position"))
    /\ pc' = "done"
    /\ UNCHANGED <<first_run, prog, config, total_combinations, ggVars, mmVars, layoutVars>>

(***************************************************************************)
(* The invocations explored: a routine and a configuration for it.         *)
(***************************************************************************)
Progs == {"transfer_combinatorial_liquids", "add_master_mix_to_combinations",
          "pd_assay_01", "pd_cfps_02", "FlexAS_pd_golden_gate_01"}

Configs(p) ==
    CASE p = "transfer_combinatorial_liquids" -> GGConfigs
      [] p = "add_master_mix_to_combinations" -> MMConfigs
      [] p = "pd_assay_01" -> AssayConfigs
      [] p = "pd_cfps_02" -> CfpsConfigs
      [] p = "FlexAS_pd_golden_gate_01" -> FlexASConfigs

Entry(p) ==
    CASE p = "transfer_combinatorial_liquids" -> "gg_total"
      [] p = "add_master_mix_to_combinations" -> "mm_total"
      [] p = "pd_assay_01" -> "assay_set_temperature"
      [] p = "pd_cfps_02" -> "cfps_set_temperature"
      [] p = "FlexAS_pd_golden_gate_01" -> "flexas_set_temperature"

Init ==
    /\ prog \in Progs
    /\ config \in Configs(prog)
    /\ pc = Entry(prog)
    /\ total_combinations = 0
    /\ all_combinations = <<>>
    /\ dest_well_number = 0
    /\ slot = 0
    /\ log = <<>>
    /\ dispenses_per_well = 0
    /\ master_mix_wells_needed = 0
    /\ current_master_mix_well = 0
    /\ remaining_dispenses = 0
    /\ result = 0
    /\ columns_needed = 0
    /\ extra_column_number = 0
    /\ target_columns = <<>>
    /\ internal_standards_column = 0
    /\ nozzle = [p50 |-> "ALL", p200 |-> "ALL", p1000 |-> "ALL"]
    /\ first_run = NoRun

Next ==
    \/ GGCalcTotal
    \/ GGGenerate
    \/ GGTransfer
    \/ GGNextDest
    \/ GGReturn
    \/ GGRunAgain
    \/ MMCalcTotal
    \/ MMCalcDispenses
    \/ MMCalcWellsNeeded
    \/ MMIteration
    \/ MMReturn
    \/ AssaySetTemperature
    \/ AssayMoveReactionPlate
    \/ AssayConfigure
    \/ AssayLayout
    \/ AssayTargets
    \/ AssayDispense
    \/ AssaySamples
    \/ AssayRemove
    \/ AssayOverlay
    \/ AssayMoveAssayPlate
    \/ CfpsSetTemperature
    \/ CfpsMovePlates
    \/ CfpsConfigureP50
    \/ CfpsLayout
    \/ CfpsTransferPcr
    \/ CfpsTransferStandards
    \/ CfpsConfigureP1000
    \/ CfpsPrepareReagentMix
    \/ CfpsStage
    \/ CfpsIncubate
    \/ CfpsUnload
    \/ FlexASSetTemperature
    \/ FlexASMoveReactionPlate
    \/ FlexASConfigureP50
    \/ FlexASPrepareReagentMix
    \/ FlexASStage
    \/ FlexASIncubate
    \/ FlexASUnload

Spec == Init /\ [][Next]_vars

(***************************************************************************)
(* Vocabulary of the properties.                                           *)
(***************************************************************************)
\* the positions at which total_combinations is not yet computed; run() of
\* FlexAS/pd_golden_gate_01.py never computes it
PreTotal ==
    {"gg_total", "mm_total",
     "assay_set_temperature", "assay_move_reaction_plate", "assay_configure",
     "assay_layout",
     "cfps_set_temperature", "cfps_move_plates", "cfps_configure_p50", "cfps_layout"}

TotalComputed == prog # "FlexAS_pd_golden_gate_01" /\ pc \notin PreTotal

\* all_combinations holds the enumeration of config.combinations
Generated ==
    prog = "transfer_combinatorial_liquids" /\ pc \in {"gg_transfer", "done"}

RECURSIVE ProductOfLengths(_)
\* a*b*c*... for slots of lengths a, b, c, ...
ProductOfLengths(spec) ==
    IF spec = <<>> THEN 1 ELSE Len(Head(spec)) * ProductOfLengths(Tail(spec))

HasEmptySlot(spec) == \E j \in 1..Len(spec) : Len(spec[j]) = 0

\* where value v stands in a slot (the explored slots hold distinct wells)
Position(slot_values, v) ==
    CHOOSE i \in 1..Len(slot_values) : slot_values[i] = v

\* the choice made in each slot by combination k, as positions in the slots
IndexTuple(k) ==
    [j \in 1..Len(config.combinations) |->
        Position(config.combinations[j], all_combinations[k][j])]

\* a before b in lexicographic order, first component most significant
LexLess(a, b) ==
    \E j \in 1..Len(a) : a[j] < b[j] /\ \A i \in 1..(j - 1) : a[i] = b[i]

RECURSIVE SumVolume(_, _)
\* the volume the transfers of events draw from source well w
SumVolume(events, w) ==
    IF events = <<>> THEN 0
    ELSE (IF Head(events).op = "transfer" /\ Head(events).src = w
            THEN Head(events).vol ELSE 0) + SumVolume(Tail(events), w)

\* how many transfers of events draw from source well w
Served(events, w) == Len(SelectSeq(events, LAMBDA e : e.op = "transfer" /\ e.src = w))

SourceWells(events) == {events[n].src : n \in 1..Len(events)}

(***************************************************************************)
(* C1.  For every combination spec, calculate_total_combinations returns   *)
(* the product of the slot lengths, and generate_all_combinations returns  *)
(* a list of that length.                                                  *)
(***************************************************************************)
C1_TotalIsProduct ==
    /\ TotalComputed =>
          total_combinations = ProductOfLengths(config.combinations)
    /\ Generated => Len(all_combinations) = total_combinations

C1_Witness ==
    /\ Generated
    /\ config.combinations = ShippedCombinations
    /\ total_combinations = 16
    /\ Len(all_combinations) = 16

(***************************************************************************)
(* C2.  generate_all_combinations returns the Cartesian product of the     *)
(* slots, one value per slot in slot order, in lexicographic order of the  *)
(* choices with slot 0 slowest and the last slot fastest; for the spec     *)
(* [[2,18],[3,19],[4,20],[5,21]] the first tuple is (2,3,4,5) and the last *)
(* (18,19,20,21).                                                          *)
(***************************************************************************)
C2_LexicographicProduct ==
    Generated =>
        /\ Len(all_combinations) = ProductOfLengths(config.combinations)
        /\ \A k \in 1..Len(all_combinations) :
              /\ Len(all_combinations[k]) = Len(config.combinations)
              /\ \A j \in 1..Len(config.combinations) :
                    \E i \in 1..Len(config.combinations[j]) :
                        all_combinations[k][j] = config.combinations[j][i]
        /\ \A k \in 1..(Len(all_combinations) - 1) :
              LexLess(IndexTuple(k), IndexTuple(k + 1))
        /\ config.combinations = ShippedCombinations =>
              /\ all_combinations[1] = <<2, 3, 4, 5>>
              /\ all_combinations[Len(all_combinations)] = <<18, 19, 20, 21>>

C2_Witness ==
    /\ Generated
    /\ config.combinations = ShippedCombinations
    /\ all_combinations[1] = <<2, 3, 4, 5>>
    /\ all_combinations[2] = <<2, 3, 4, 21>>
    /\ all_combinations[16] = <<18, 19, 20, 21>>

(***************************************************************************)
(* C3.  transfer_combinatorial_liquids gives the k-th combination of the   *)
(* enumeration destination well k: the transfers issued are, for k = 1, 2, *)
(* ..., one transfer into well k from each source well of combination k in *)
(* slot order; no well above total is addressed, and when the routine      *)
(* returns every well 1..total has had exactly its combination.            *)
(***************************************************************************)
C3_DestinationAssignment ==
    prog = "transfer_combinatorial_liquids" =>
        LET slots == Len(config.combinations)
        IN /\ \A n \in 1..Len(log) :
                 LET k == ((n - 1) \div slots) + 1
                     j == ((n - 1) % slots) + 1
                 IN /\ k <= total_combinations
                    /\ log[n].op = "transfer"
                    /\ log[n].dst = <<"dest_plate", k - 1>>
                    /\ log[n].src = <<"source_plate", all_combinations[k][j] - 1>>
           /\ pc = "done" => Len(log) = total_combinations * slots

C3_Witness ==
    /\ prog = "transfer_combinatorial_liquids"
    /\ pc = "done"
    /\ config.combinations = GGCombinations
    /\ Len(log) = 24
    /\ SubSeq(log, 21, 24) =
          <<Ev("transfer", "pipette", 5, <<"source_plate", 16>>, <<"dest_plate", 5>>),
            Ev("transfer", "pipette", 5, <<"source_plate", 1>>, <<"dest_plate", 5>>),
            Ev("transfer", "pipette", 5, <<"source_plate", 10>>, <<"dest_plate", 5>>),
            Ev("transfer", "pipette", 5, <<"source_plate", 3>>, <<"dest_plate", 5>>)>>

(***************************************************************************)
(* C6.  In add_master_mix_to_combinations with dispenses_per_well >= 1,    *)
(* destination well k is served from master-mix well                       *)
(* master_mix_start_well + floor((k-1)/dispenses_per_well); when the       *)
(* routine returns, the wells drawn from number master_mix_wells_needed,   *)
(* each serves dispenses_per_well destinations, except the last, which     *)
(* serves total - (wells-1)*dispenses_per_well.                            *)
(***************************************************************************)
C6_Rotation ==
    (prog = "add_master_mix_to_combinations" /\ pc \in {"mm_loop", "done"}
        /\ dispenses_per_well >= 1) =>
        LET first == config.master_mix_start_well - 1
            last == first + master_mix_wells_needed - 1
        IN /\ \A n \in 1..Len(log) :
                 /\ log[n].dst = <<"dest_plate", n - 1>>
                 /\ log[n].src =
                       <<"source_plate", first + ((n - 1) \div dispenses_per_well)>>
           /\ pc = "done" =>
                 /\ SourceWells(log) = {<<"source_plate", w>> : w \in first..last}
                 /\ \A w \in first..last :
                       Served(log, <<"source_plate", w>>) =
                          IF w < last THEN dispenses_per_well
                          ELSE total_combinations
                                 - (master_mix_wells_needed - 1) * dispenses_per_well

C6_Witness ==
    /\ prog = "add_master_mix_to_combinations"
    /\ pc = "done"
    /\ config.master_mix_volume = 12
    /\ config.master_mix_well_volume = 100
    /\ total_combinations = 20
    /\ dispenses_per_well = 8
    /\ master_mix_wells_needed = 3
    /\ Served(log, <<"source_plate", 32>>) = 8
    /\ Served(log, <<"source_plate", 33>>) = 8
    /\ Served(log, <<"source_plate", 34>>) = 4

(***************************************************************************)
(* C7.  For positive volumes, add_master_mix_to_combinations never draws   *)
(* more than master_mix_well_volume from one master-mix well, and it moves *)
(* on to the next well only when one more dispense of master_mix_volume    *)
(* would not fit in the current one.                                       *)
(***************************************************************************)
NoOverDraw ==
    \A w \in SourceWells(log) : SumVolume(log, w) <= config.master_mix_well_volume

C7_NoOverOrUnderDraw ==
    [][(prog = "add_master_mix_to_combinations"
          /\ config.master_mix_volume > 0 /\ config.master_mix_well_volume > 0) =>
         /\ NoOverDraw'
         /\ (pc = "mm_loop" /\ current_master_mix_well' # current_master_mix_well) =>
               SumVolume(log, <<"source_plate", current_master_mix_well>>)
                  + config.master_mix_volume > config.master_mix_well_volume]_vars

C7_Witness ==
    /\ prog = "add_master_mix_to_combinations"
    /\ pc = "mm_loop"
    /\ config.master_mix_volume = 12
    /\ config.master_mix_well_volume = 100
    /\ current_master_mix_well = 33
    /\ SumVolume(log, <<"source_plate", 32>>) = 96
    /\ SumVolume(log, <<"source_plate", 33>>) = 12

(***************************************************************************)
(* C8.  A spec with an empty slot is rejected with InvalidSpec by          *)
(* calculate_total_combinations and generate_all_combinations, so every    *)
(* total they return is at least 1.                                        *)
(***************************************************************************)
C8_EmptySlotRejected ==
    /\ (HasEmptySlot(config.combinations) /\ TotalComputed) => pc = "InvalidSpec"
    /\ (TotalComputed /\ pc # "InvalidSpec") => total_combinations >= 1
    /\ (Generated /\ pc # "InvalidSpec") => Len(all_combinations) >= 1

(***************************************************************************)
(* C9.  When master_mix_volume or master_mix_well_volume or the total      *)
(* count is not positive, add_master_mix_to_combinations ends in an error  *)
(* before it computes a rotation and before it issues a transfer.          *)
(***************************************************************************)
C9_NonPositiveRejected ==
    (prog = "add_master_mix_to_combinations"
        /\ (\/ config.master_mix_volume <= 0
            \/ config.master_mix_well_volume <= 0
            \/ ProductOfLengths(config.combinations) <= 0)) =>
        /\ log = <<>>
        /\ pc \notin {"mm_wells", "mm_loop", "done"}

(***************************************************************************)
(* C4.  For every positive total, columns_needed = (total + 7) // 8 is the *)
(* ceiling of total/8, the least c with 8*c >= total: 16 -> 2, 24 -> 3,    *)
(* 25 -> 4.  Both calculate_reaction_plate_layout and                      *)
(* calculate_internal_standards_column (whose result is columns_needed+1), *)
(* and transfer_pcr_products, compute it.                                  *)
(***************************************************************************)
IsCeilingOfEighth(c, total) ==
    /\ 8 * c >= total
    /\ 8 * (c - 1) < total
    /\ total = 16 => c = 2
    /\ total = 24 => c = 3
    /\ total = 25 => c = 4

C4_CeilingColumns ==
    (TotalComputed /\ total_combinations >= 1) =>
        /\ prog = "pd_assay_01" =>
              IsCeilingOfEighth(columns_needed, total_combinations)
        /\ prog = "pd_cfps_02" =>
              IsCeilingOfEighth(internal_standards_column - 1, total_combinations)
        /\ (prog = "pd_cfps_02" /\ pc \notin {"cfps_pcr"}) =>
              IsCeilingOfEighth(columns_needed, total_combinations)

C4_Witness ==
    /\ prog = "pd_assay_01"
    /\ pc = "assay_targets"
    /\ total_combinations = 16
    /\ columns_needed = 2

(***************************************************************************)
(* C5.  calculate_reaction_plate_layout returns extra_column_number =      *)
(* reaction_plate_first_column + columns_needed: the column right after    *)
(* the last combination column, never one of the combination columns       *)
(* first_column .. first_column + columns_needed - 1 (first column 1 and   *)
(* 3 columns give 4).                                                      *)
(***************************************************************************)
C5_ExtraColumnAfterCombinations ==
    (prog = "pd_assay_01" /\ TotalComputed) =>
        LET first_col == config.reaction_plate_first_column
        IN /\ extra_column_number = first_col + columns_needed
           /\ \A c \in first_col..(first_col + columns_needed - 1) :
                 c < extra_column_number
           /\ (first_col = 1 /\ columns_needed = 3) => extra_column_number = 4

C5_Witness ==
    /\ prog = "pd_assay_01"
    /\ pc = "assay_targets"
    /\ config.reaction_plate_first_column = 1
    /\ columns_needed = 3
    /\ extra_column_number = 4

(***************************************************************************)
(* C10.  In run() of pd_assay_01 and of pd_cfps_02 the layout computation  *)
(* has finished before the first physical actuation request                *)
(* (set_temperature, move_labware, transfer) is issued, so a run on a bad  *)
(* spec performs no physical action.                                       *)
(***************************************************************************)
Actuated ==
    \E n \in 1..Len(log) : log[n].op \in {"set_temperature", "move_labware", "transfer"}

C10_LayoutBeforeActuation ==
    prog \in {"pd_assay_01", "pd_cfps_02"} =>
        /\ Actuated => TotalComputed
        /\ HasEmptySlot(config.combinations) => ~Actuated

RecomputedColumnsNeeded ==
    ColumnsNeeded(calculate_total_combinations(config.combinations))

ColumnsNeededAgree ==
    /\ (prog = "pd_assay_01" /\ TotalComputed) =>
          /\ columns_needed = RecomputedColumnsNeeded
          /\ calculate_reaction_plate_layout(config) =
                <<total_combinations, columns_needed, extra_column_number>>
    /\ (prog = "pd_cfps_02" /\ TotalComputed) =>
          internal_standards_column - 1 = RecomputedColumnsNeeded
    /\ (prog = "pd_cfps_02" /\ TotalComputed /\ pc # "cfps_pcr") =>
          columns_needed = internal_standards_column - 1

C12_ConfigUntouched ==
    [][(prog = "pd_assay_01" \/ prog = "pd_cfps_02") =>
         (config' = config /\ ColumnsNeededAgree')]_vars

C12_Witness ==
    /\ prog = "pd_cfps_02"
    /\ pc = "cfps_standards"
    /\ config.combinations = ShippedCombinations
    /\ internal_standards_column = 3
    /\ columns_needed = 2
    /\ RecomputedColumnsNeeded = 2

(***************************************************************************)
(* C13.  determine_target_columns returns exactly the combination columns  *)
(* first_column .. first_column + columns_needed - 1, and                  *)
(* extra_column_number if and only if reaction_plate_has_extra_column; the *)
(* list is ascending and has no duplicates.                                *)
(***************************************************************************)
TargetsDetermined ==
    /\ prog = "pd_assay_01"
    /\ pc \in {"assay_dispense", "assay_samples", "assay_remove", "assay_overlay",
               "assay_move_assay_plate", "done"}

C13_TargetColumns ==
    TargetsDetermined =>
        LET first_col == config.reaction_plate_first_column
            combination_cols == first_col..(first_col + columns_needed - 1)
        IN /\ \A c \in combination_cols : c \in Range(target_columns)
           /\ \A c \in Range(target_columns) :
                 c \in combination_cols \/ c = extra_column_number
           /\ extra_column_number \in Range(target_columns)
                 <=> config.reaction_plate_has_extra_column
           /\ \A i \in 1..(Len(target_columns) - 1) :
                 target_columns[i] < target_columns[i + 1]

C13_Witness ==
    /\ TargetsDetermined
    /\ pc = "assay_dispense"
    /\ config.combinations = ShippedCombinations
    /\ config.reaction_plate_first_column = 2
    /\ config.reaction_plate_has_extra_column
    /\ target_columns = <<2, 3, 4>>

(***************************************************************************)
(* C14.  In run() of pd_assay_01 the assay reagent is dispensed into a     *)
(* target column before the sample is transferred into it; in the extra    *)
(* column the unwanted content is removed after the sample transfer and    *)
(* before the internal-standards overlay; and the assay plate is moved to  *)
(* the staging position only after every liquid operation on it.           *)
(***************************************************************************)
IsReagentDispense(e) ==
    e.op = "transfer" /\ e.src[1] = "deep_well_plate" /\ e.dst[1] = "assay_plate"

IsSampleTransfer(e) ==
    e.op = "transfer" /\ e.src[1] = "reaction_plate" /\ e.dst[1] = "assay_plate"

IsRemoval(e) == e.op = "aspirate" /\ e.src[1] = "assay_plate"

IsOverlay(e) ==
    e.op = "transfer" /\ e.src[1] = "internal_standards_plate"
        /\ e.dst[1] = "assay_plate"

TouchesAssayPlate(e) ==
    /\ e.op \in {"transfer", "aspirate", "dispense", "mix"}
    /\ e.src[1] = "assay_plate" \/ e.dst[1] = "assay_plate"

IsAssayPlateMove(e) == e.op = "move_labware" /\ e.src[1] = "assay_plate"

\* the 1-indexed column of a well <<labware, index>>
ColumnOf(well) == (well[2] \div 8) + 1

SamplesTransferred ==
    /\ prog = "pd_assay_01"
    /\ pc \in {"assay_remove", "assay_overlay", "assay_move_assay_plate", "done"}

C14_StepOrder ==
    prog = "pd_assay_01" =>
        /\ \A j \in 1..Len(log) :
              IsSampleTransfer(log[j]) =>
                  \E i \in 1..(j - 1) :
                      IsReagentDispense(log[i]) /\ log[i].dst = log[j].dst
        /\ SamplesTransferred =>
              \A c \in Range(target_columns) :
                  \E j \in 1..Len(log) :
                      /\ IsSampleTransfer(log[j])
                      /\ log[j].dst = <<"assay_plate", ColumnTop(c)>>
        /\ \A k \in 1..Len(log) :
              IsRemoval(log[k]) =>
                  /\ ColumnOf(log[k].src) = extra_column_number
                  /\ \E j \in 1..(k - 1) :
                        /\ IsSampleTransfer(log[j])
                        /\ ColumnOf(log[j].dst) = extra_column_number
                  /\ \A m \in 1..(k - 1) : ~IsOverlay(log[m])
        /\ \A m \in 1..Len(log) :
              IsOverlay(log[m]) =>
                  /\ ColumnOf(log[m].dst) = extra_column_number
                  /\ \E j \in 1..(m - 1) :
                        /\ IsSampleTransfer(log[j])
                        /\ ColumnOf(log[j].dst) = extra_column_number
        /\ \A i \in 1..Len(log) :
              IsAssayPlateMove(log[i]) =>
                  \A j \in (i + 1)..Len(log) : ~TouchesAssayPlate(log[j])
        /\ pc = "done" => IsAssayPlateMove(log[Len(log)])
        /\ (pc # "done") => \A i \in 1..Len(log) : ~IsAssayPlateMove(log[i])

C14_Witness ==
    /\ prog = "pd_assay_01"
    /\ pc = "done"
    /\ config.combinations = ShippedCombinations
    /\ config.reaction_plate_first_column = 1
    /\ config.cell_free_standards = <<1, 2, 3, 4, 5>>
    /\ \E i, j, k, m \in 1..Len(log) :
          /\ i < j /\ j < k /\ k < m /\ m < Len(log)
          /\ IsReagentDispense(log[i]) /\ ColumnOf(log[i].dst) = 3
          /\ IsSampleTransfer(log[j]) /\ ColumnOf(log[j].dst) = 3
          /\ IsRemoval(log[k]) /\ log[k].src = <<"assay_plate", 21>>
          /\ IsOverlay(log[m]) /\ ColumnOf(log[m].dst) = 3
    /\ IsAssayPlateMove(log[Len(log)])

(***************************************************************************)
(* C15.  remove_unwanted_content_from_extra_column aspirates from exactly  *)
(* the wells of the extra column whose row (1..8) is not listed in         *)
(* cell_free_standards, each once, at well index                           *)
(* (extra_column - 1)*8 + (row - 1); never from a listed row or from       *)
(* outside the extra column; and what it aspirates it dispenses into the   *)
(* garbage well.                                                           *)
(***************************************************************************)
RowsToRemove == {r \in 1..8 : r \notin Range(config.cell_free_standards)}

RemovalDone ==
    /\ prog = "pd_assay_01"
    /\ pc \in {"assay_overlay", "assay_move_assay_plate", "done"}
    /\ config.overlay_extra_column
    /\ config.reaction_plate_has_extra_column

\* how many times the requests of events aspirate from well w
Aspirations(events, w) ==
    Len(SelectSeq(events, LAMBDA e : e.op = "aspirate" /\ e.src = w))

C15_RemovalFrame ==
    prog = "pd_assay_01" =>
        /\ \A k \in 1..Len(log) :
              log[k].op = "aspirate" =>
                  /\ \E r \in RowsToRemove :
                        log[k].src =
                           <<"assay_plate", (extra_column_number - 1) * 8 + (r - 1)>>
                  /\ k < Len(log)
                  /\ log[k + 1] = Ev("dispense", "p200", log[k].vol, NoWell,
                                     <<"deep_well_plate", config.garbage_well - 1>>)
        /\ \A k \in 1..Len(log) :
              log[k].op = "dispense" => (k > 1 /\ log[k - 1].op = "aspirate")
        /\ RemovalDone =>
              \A r \in RowsToRemove :
                  Aspirations(log, <<"assay_plate",
                                     (extra_column_number - 1) * 8 + (r - 1)>>) = 1

C15_Witness ==
    /\ RemovalDone
    /\ pc = "assay_overlay"
    /\ config.combinations = ShippedCombinations
    /\ config.reaction_plate_first_column = 1
    /\ config.cell_free_standards = <<1, 2, 3, 4, 5>>
    /\ SelectSeq(log, LAMBDA e : e.op \in {"aspirate", "dispense"}) =
          <<Ev("aspirate", "p200", 200, <<"assay_plate", 21>>, NoWell),
            Ev("dispense", "p200", 200, NoWell, <<"deep_well_plate", 11>>),
            Ev("aspirate", "p200", 200, <<"assay_plate", 22>>, NoWell),
            Ev("dispense", "p200", 200, NoWell, <<"deep_well_plate", 11>>),
            Ev("aspirate", "p200", 200, <<"assay_plate", 23>>, NoWell),
            Ev("dispense", "p200", 200, NoWell, <<"deep_well_plate", 11>>)>>

(***************************************************************************)
(* The liquid in a well, from the requests made so far.  A pipette in      *)
(* SINGLE layout works on the well it is sent to; in any other layout its  *)
(* eight nozzles work on the whole column of that well.                    *)
(***************************************************************************)
\* the layout pipette pip is in when request n is made
LayoutAt(n, pip) ==
    LET configured == {i \in 1..(n - 1) :
                          log[i].op = "configure_nozzle_layout" /\ log[i].pip = pip}
    IN IF configured = {} THEN "ALL"
       ELSE log[CHOOSE i \in configured : \A k \in configured : k <= i].src[1]

\* request n, sent to well target, works on well w
Reaches(n, target, w) ==
    /\ target[1] = w[1]
    /\ IF LayoutAt(n, log[n].pip) = "SINGLE"
         THEN target = w
         ELSE ColumnOf(target) = ColumnOf(w)

\* what request n adds to well w
VolumeChange(n, w) ==
    (IF log[n].op \in {"transfer", "dispense"} /\ Reaches(n, log[n].dst, w)
       THEN log[n].vol ELSE 0)
    - (IF log[n].op \in {"transfer", "aspirate"} /\ Reaches(n, log[n].src, w)
         THEN log[n].vol ELSE 0)

RECURSIVE VolumeAfter(_, _)
\* what the first n requests have put into well w
VolumeAfter(n, w) ==
    IF n = 0 THEN 0 ELSE VolumeAfter(n - 1, w) + VolumeChange(n, w)

\* the well in 1-indexed row and column of the assay plate
AssayWell(col_num, row_num) == <<"assay_plate", ColumnTop(col_num) + (row_num - 1)>>

(***************************************************************************)
(* C16.  At the end of run() of pd_assay_01 with the overlay enabled, the  *)
(* wells of the assay plate have received the volumes the completion       *)
(* comments report: reagent + sample in the combination columns, reagent + *)
(* sample + internal standards in the rows of the extra column listed in   *)
(* cell_free_standards, reagent + internal standards in its cleared rows.  *)
(***************************************************************************)
C16_ReportedVolumes ==
    (prog = "pd_assay_01" /\ pc = "done" /\ config.overlay_extra_column) =>
        LET first_col == config.reaction_plate_first_column
            reagent == config.assay_reagent_volume
            sample == config.sample_transfer_volume
            standards == config.internal_standards_transfer_volume
        IN /\ \A c \in first_col..(first_col + columns_needed - 1) :
                 \A r \in 1..8 :
                     VolumeAfter(Len(log), AssayWell(c, r)) = reagent + sample
           /\ config.reaction_plate_has_extra_column =>
                 /\ \A r \in Range(config.cell_free_standards) :
                       VolumeAfter(Len(log), AssayWell(extra_column_number, r)) =
                          reagent + sample + standards
                 /\ \A r \in RowsToRemove :
                       VolumeAfter(Len(log), AssayWell(extra_column_number, r)) =
                          reagent + standards

(***************************************************************************)
(* C17.  In pd_assay_01, when overlay_extra_column or                      *)
(* reaction_plate_has_extra_column is false, run() neither removes content *)
(* nor overlays internal standards, and after the initial configuration of *)
(* the two pipettes it does not configure a nozzle layout again; when      *)
(* reaction_plate_has_extra_column is false, no reagent and no sample goes *)
(* into the extra column.                                                  *)
(***************************************************************************)
ConfigureRequests == SelectSeq(log, LAMBDA e : e.op = "configure_nozzle_layout")

C17_DisabledOverlayFrame ==
    prog = "pd_assay_01" =>
        /\ (~config.overlay_extra_column \/ ~config.reaction_plate_has_extra_column) =>
              /\ \A n \in 1..Len(log) :
                    /\ log[n].op \notin {"aspirate", "dispense"}
                    /\ ~IsOverlay(log[n])
              /\ LET initial == <<Configure("p50", "COLUMN"), Configure("p200", "COLUMN")>>
                 IN /\ Len(ConfigureRequests) <= 2
                    /\ ConfigureRequests = SubSeq(initial, 1, Len(ConfigureRequests))
              /\ nozzle.p50 # "SINGLE" /\ nozzle.p200 # "SINGLE"
        /\ ~config.reaction_plate_has_extra_column =>
              \A n \in 1..Len(log) :
                  (log[n].op = "transfer" /\ log[n].dst[1] = "assay_plate") =>
                      /\ ColumnOf(log[n].dst) # extra_column_number
                      /\ ColumnOf(log[n].dst) <
                            config.reaction_plate_first_column + columns_needed

C17_Witness ==
    /\ prog = "pd_assay_01"
    /\ pc = "done"
    /\ config.combinations = ShippedCombinations
    /\ config.reaction_plate_first_column = 1
    /\ config.overlay_extra_column
    /\ ~config.reaction_plate_has_extra_column
    /\ extra_column_number = 3
    /\ target_columns = <<1, 2>>
    /\ Len(ConfigureRequests) = 2
    /\ Len(SelectSeq(log, LAMBDA e : e.op = "transfer")) = 4

(***************************************************************************)
(* C18.  In run() of pd_cfps_02 and of pd_assay_01 every request of an     *)
(* operation documented as 8-channel is made with its pipette in COLUMN    *)
(* layout, and every request of an operation documented as single-channel  *)
(* with its pipette in SINGLE layout; transfer_pcr_products, documented as *)
(* 8-channel, runs with its pipette in COLUMN layout.                      *)
(***************************************************************************)
IsLiquidRequest(e) == e.op \in {"transfer", "mix", "aspirate", "dispense"}

\* a transfer of transfer_pcr_products: the only one out of the source plate
IsPcrProductTransfer(e) == e.op = "transfer" /\ e.src[1] = "source_plate"

\* the layout the docstrings and comments of the operation that makes
\* request e announce
DocumentedLayout(e) ==
    CASE prog = "pd_assay_01" ->
           IF e.op \in {"aspirate", "dispense"} THEN "SINGLE" ELSE "COLUMN"
      [] prog = "pd_cfps_02" ->
           IF e.pip = "p1000" \/ IsPcrProductTransfer(e) THEN "COLUMN" ELSE "SINGLE"

C18_DocumentedLayout ==
    (prog = "pd_assay_01" \/ prog = "pd_cfps_02") =>
        \A n \in 1..Len(log) :
            IsLiquidRequest(log[n]) =>
                LayoutAt(n, log[n].pip) = DocumentedLayout(log[n])

(***************************************************************************)
(* C19.  For every configuration transfer_pcr_products issues exactly      *)
(* columns_needed = ceil(total_combinations/8) column transfers, the i-th  *)
(* (from 0) from source-plate column i to reaction-plate column            *)
(* template_columns[i]; the number of columns its closing comment reports, *)
(* columns_needed, is the number of transfers it issued.                   *)
(***************************************************************************)
PcrProductsTransferred ==
    /\ prog = "pd_cfps_02"
    /\ pc \notin {"cfps_set_temperature", "cfps_move_plates", "cfps_configure_p50",
                  "cfps_layout", "cfps_pcr"}

PcrProductTransfers == SelectSeq(log, IsPcrProductTransfer)

C19_ReportedColumnsIssued ==
    PcrProductsTransferred =>
        /\ columns_needed = RecomputedColumnsNeeded
        /\ Len(PcrProductTransfers) = columns_needed
        /\ \A i \in 1..columns_needed :
              /\ i <= Len(config.template_columns)
              /\ PcrProductTransfers[i] =
                    Ev("transfer", "p50", config.pcr_transfer_volume,
                       <<"source_plate", ColumnTop(i)>>,
                       <<"reaction_plate", ColumnTop(config.template_columns[i])>>)

(***************************************************************************)
(* C20.  In pd_cfps_02, within the internal-standards column of the        *)
(* reaction plate only the rows listed in internal_standards_wells receive *)
(* anything: transfer_internal_standards puts standard i (well i of the    *)
(* standards plate, in sequence) into row internal_standards_wells[i],     *)
(* step 5 of prepare_reagent_mix adds reagent to those rows, and no other  *)
(* row of that column receives a transfer during the run.                  *)
(***************************************************************************)
\* the well in 1-indexed row row_num of the internal-standards column
StandardsWell(row_num) ==
    <<"reaction_plate", ColumnTop(internal_standards_column) + (row_num - 1)>>

\* request n puts liquid into well w
Receives(n, w) == log[n].op = "transfer" /\ Reaches(n, log[n].dst, w)

StandardsTransfers ==
    SelectSeq(log, LAMBDA e : e.op = "transfer" /\ e.src[1] = "internal_standards_plate")

\* the single-channel transfers of step 5, out of the mixing column
Step5Transfers ==
    SelectSeq(log, LAMBDA e : e.op = "transfer" /\ e.pip = "p50"
                                 /\ e.src[1] = "reaction_plate")

C20_StandardsColumnFrame ==
    (prog = "pd_cfps_02" /\ TotalComputed) =>
        LET wells == config.internal_standards_wells
        IN /\ \A n \in 1..Len(log) : \A r \in 1..8 :
                 Receives(n, StandardsWell(r)) =>
                     /\ \E i \in 1..Len(wells) : wells[i] = r
                     /\ log[n].pip = "p50"
                     /\ log[n].dst = StandardsWell(r)
                     /\ log[n].src[1] \in {"internal_standards_plate", "reaction_plate"}
           /\ pc \notin {"cfps_pcr", "cfps_standards"} =>
                 /\ Len(StandardsTransfers) = Len(wells)
                 /\ \A i \in 1..Len(wells) :
                       /\ StandardsTransfers[i].src = <<"internal_standards_plate", i - 1>>
                       /\ StandardsTransfers[i].dst = StandardsWell(wells[i])
           /\ pc \in {"cfps_stage", "cfps_incubate", "cfps_unload", "done"} =>
                 /\ Len(Step5Transfers) = Len(wells)
                 /\ \A i \in 1..Len(wells) :
                       Step5Transfers[i].dst = StandardsWell(wells[i])

(***************************************************************************)
(* C21.  add_master_mix_to_combinations, when it returns, has issued       *)
(* exactly one transfer of master_mix_volume to each destination well      *)
(* 1..total_combinations and to no other well, in ascending destination    *)
(* order; the master-mix well drawn from starts at master_mix_start_well,  *)
(* never decreases, and the value returned is the index of the last well   *)
(* drawn from.                                                             *)
(***************************************************************************)
C21_MasterMixTransfers ==
    prog = "add_master_mix_to_combinations" =>
        /\ \A n \in 1..Len(log) :
              /\ n <= total_combinations
              /\ log[n].op = "transfer"
              /\ log[n].vol = config.master_mix_volume
              /\ log[n].dst = <<"dest_plate", n - 1>>
              /\ log[n].src[1] = "source_plate"
        /\ Len(log) >= 1 =>
              log[1].src = <<"source_plate", config.master_mix_start_well - 1>>
        /\ \A n \in 1..(Len(log) - 1) : log[n].src[2] <= log[n + 1].src[2]
        /\ pc = "done" =>
              /\ Len(log) = total_combinations
              /\ Len(log) >= 1 => result = log[Len(log)].src[2]

C21_Witness ==
    /\ prog = "add_master_mix_to_combinations"
    /\ pc = "done"
    /\ config.combinations = ShippedCombinations
    /\ config.master_mix_volume = 50
    /\ config.master_mix_well_volume = 100
    /\ Len(log) = 16
    /\ log[1].src = <<"source_plate", 32>>
    /\ log[16] = Ev("transfer", "pipette", 50, <<"source_plate", 39>>,
                    <<"dest_plate", 15>>)
    /\ result = 39

(***************************************************************************)
(* C22.  Under the shipped configuration of pd_cfps_02 and of              *)
(* FlexAS/pd_golden_gate_01 the column roles on the reaction plate are     *)
(* pairwise distinct: the mix-A column, the mix-B column, the mixing       *)
(* column, each template column and (pd_cfps_02) the internal-standards    *)
(* column are different columns, so no transfer within the plate has the   *)
(* same column as source and destination and no template column is a       *)
(* reagent column.                                                         *)
(***************************************************************************)
ShippedConfiguration ==
    \/ /\ prog = "pd_cfps_02"
       /\ config.combinations = ShippedCombinations
       /\ config.template_columns = <<7, 8>>
       /\ config.internal_standards_wells = <<1, 2, 3, 4, 5>>
    \/ /\ prog = "FlexAS_pd_golden_gate_01"
       /\ config.template_columns = <<1, 2, 3>>

ReagentColumns ==
    {config.reagent_mix_A_column, config.reagent_mix_B_column,
     config.reagent_mixing_column}

\* the columns named by the configuration are pairwise distinct
RolesDistinct ==
    /\ Cardinality(ReagentColumns) = 3
    /\ Cardinality(Range(config.template_columns)) = Len(config.template_columns)
    /\ Range(config.template_columns) \cap ReagentColumns = {}
    /\ (prog = "pd_cfps_02" /\ TotalComputed) =>
          internal_standards_column
              \notin (ReagentColumns \cup Range(config.template_columns))

\* no transfer within a plate has the same column as source and destination
NoTransferOntoItself ==
    \A n \in 1..Len(log) :
        (log[n].op = "transfer" /\ log[n].src[1] = log[n].dst[1]) =>
            ColumnOf(log[n].src) # ColumnOf(log[n].dst)

C22_ColumnRolesDistinct ==
    ShippedConfiguration => (RolesDistinct /\ NoTransferOntoItself)

====
